---- MODULE Spec2Model ----
(***************************************************************************)
(* State-machine model of the GEPA prompt optimizer of dspyground          *)
(* (src/src/app/api/optimize/route.ts): the optimization loop runGEPA, the *)
(* batch evaluator, the reflection rewriter, the Pareto frontier update    *)
(* and the progress events written to the response stream.                 *)
(*                                                                         *)
(* Scores are the code's floating point numbers in [0,1], kept here as     *)
(* exact integers: the number 1.0 is the integer One, chosen so that every *)
(* mean the code takes (sum / length) divides exactly.                     *)
(***************************************************************************)
EXTENDS Integers, Sequences, FiniteSets, TLC

\* ---------------------------------------------------------------- bounds
MaxSamples  == 2   \* samples in data/samples.json: 0..MaxSamples
MaxBatch    == 2   \* config.batchSize: 0..MaxBatch
MaxRollouts == 2   \* config.numRollouts: 0..MaxRollouts
MaxScore    == 2   \* the judge answers k/g with k in 0..g, for a grain g in 1..MaxScore
MaxWork     == 8   \* size of a run: batchSize * numRollouts * metrics * grain * samples
MaxExtraWork == 6  \* the same with the seed evaluation counted, for the runs that ask
                   \* for structured output or read a sample without messages
MaxBatchWork == 4  \* size of one unfolded batch evaluation: batch length * metrics *
                   \* grain * samples

\* ------------------------------------------------------- small arithmetic
RECURSIVE GCD(_, _)
GCD(a, b) == IF b = 0 THEN a ELSE GCD(b, a % b)

LCM(a, b) == (a * b) \div GCD(a, b)

RECURSIVE LCMUpTo(_)
LCMUpTo(n) == IF n <= 1 THEN 1 ELSE LCM(n, LCMUpTo(n - 1))

RECURSIVE SumSeq(_)
SumSeq(s) == IF s = <<>> THEN 0 ELSE Head(s) + SumSeq(Tail(s))

\* values.filter((v) => v !== undefined), with Undefined standing for undefined
Undefined == -1

RECURSIVE FilterDefined(_)
FilterDefined(s) ==
    IF s = <<>> THEN <<>>
    ELSE IF Head(s) # Undefined THEN <<Head(s)>> \o FilterDefined(Tail(s))
         ELSE FilterDefined(Tail(s))

\* ------------------------------------------------------------ data model
\* The metric names a request can select (MetricType) and the request's
\* selectedMetrics array.
MetricNames == {"tone", "accuracy"}
MetricLists == {<<>>, <<"accuracy">>, <<"tone">>, <<"tone", "accuracy">>}

\* MetricScores: a partial map from metric name to number.
EmptyMetrics == [m \in {} |-> 0]

\* a[metric] ?? 0
MetricOrZero(a, metric) == IF metric \in DOMAIN a THEN a[metric] ELSE 0

Range(s) == {s[i] : i \in 1..Len(s)}

\* The number 1.0.  It is divisible by every grain of the judge, and a score
\* k/g stays divisible by every number of dimensions and every batch length;
\* the factor 5 makes the scores 0.4 and 0.8 exact as well.
One == LCMUpTo(MaxScore) * LCMUpTo(MaxBatch) * LCMUpTo(Cardinality(MetricNames)) * 5

\* Prompt texts.  The seed prompt file and the reflection model's answers
\* are raw texts; both are trimmed before use.
SeedFileText == " P0 "
ReflectionTexts == {" P1 "}

trim(t) ==
    CASE t = " P0 " -> "P0"
      [] t = " P1 " -> "P1"
      [] OTHER -> t

SeedId == <<"seed", 0>>
CandidateId(iteration) == <<"candidate", iteration>>

\* ------------------------------------------------------------- the judge
\* judgeAndScoreSample: one structured LLM call per (sample, trajectory).
\* The dimensions it scores: the selected ones, or the built-in accuracy
\* when none is selected.  The two texts it returns are kept as tags naming
\* the sample they are about; what they say is not modelled.
DimensionWeight == 1

ActiveDimensions(selectedMetrics) ==
    IF Range(selectedMetrics) = {} THEN {"accuracy"} ELSE Range(selectedMetrics)

\* What the reflection model may answer for one sample: a score k/grain per
\* active dimension, or a failed call.
JudgeDraws(selectedMetrics, grain) ==
    {[ok |-> TRUE, scores |-> [m \in DOMAIN l |-> l[m] * (One \div grain)]] :
        l \in [ActiveDimensions(selectedMetrics) -> 0..grain]}
    \cup {[ok |-> FALSE, scores |-> [m \in ActiveDimensions(selectedMetrics) |-> 0]]}

RECURSIVE SumOver(_, _)
SumOver(f, S) ==
    IF S = {} THEN 0
    ELSE LET x == CHOOSE y \in S : TRUE IN f[x] + SumOver(f, S \ {x})

judgeAndScoreSample(sample, draw, selectedMetrics) ==
    IF draw.ok
    THEN LET dims    == ActiveDimensions(selectedMetrics)
             metrics == [m \in dims |-> draw.scores[m]]
             weighted == [m \in dims |-> DimensionWeight * metrics[m]]
         IN [metrics |-> metrics,
             overallScore |-> SumOver(weighted, dims) \div (DimensionWeight * Cardinality(dims)),
             detailedFeedback |-> <<"feedback", sample>>,
             suggestedImprovements |-> <<"suggestion", sample>>]
    ELSE [metrics |-> EmptyMetrics,
          overallScore |-> 0,
          detailedFeedback |-> <<"feedback", sample>>,
          suggestedImprovements |-> <<"suggestion", sample>>]

\* ----------------------------------------------------- the batch evaluator
\* results.map((r) => r.metrics[metric]), undefined where the metric is absent
MetricColumn(results, metric) ==
    [i \in 1..Len(results) |->
        IF metric \in DOMAIN results[i].metrics THEN results[i].metrics[metric]
        ELSE Undefined]

EmptyEval == [metrics |-> EmptyMetrics, overallScore |-> 0,
              suggestions |-> <<>>, feedbacks |-> <<>>]

\* an aggregation that leaves the results without metrics out of the mean
aggregateSkippingFailed(results, selectedMetrics) ==
    LET values(metric) == FilterDefined(MetricColumn(results, metric))
        present == {m \in Range(selectedMetrics) : Len(values(m)) > 0}
        judged == SelectSeq(results, LAMBDA r : DOMAIN r.metrics # {})
    IN [metrics |-> [m \in present |-> SumSeq(values(m)) \div Len(values(m))],
        overallScore |->
            IF judged = <<>> THEN 0
            ELSE SumSeq([i \in 1..Len(judged) |-> judged[i].overallScore])
                     \div Len(judged),
        suggestions |-> [i \in 1..Len(results) |-> results[i].suggestedImprovements],
        feedbacks |-> [i \in 1..Len(results) |-> results[i].detailedFeedback]]

\* evaluateBatch from "Aggregate metrics" on: results is the non-empty array
\* of the per-sample results, in the order of the batch
aggregate(results, selectedMetrics) ==
    LET values(metric) == FilterDefined(MetricColumn(results, metric))
        present == {m \in Range(selectedMetrics) : Len(values(m)) > 0}
    IN [metrics |-> [m \in present |-> SumSeq(values(m)) \div Len(values(m))],
        overallScore |->
            SumSeq([i \in 1..Len(results) |-> results[i].overallScore])
                \div Len(results),
        suggestions |-> [i \in 1..Len(results) |-> results[i].suggestedImprovements],
        feedbacks |-> [i \in 1..Len(results) |-> results[i].detailedFeedback]]

evaluateBatch(samples, draws, selectedMetrics) ==
    IF Len(samples) = 0 THEN EmptyEval
    ELSE aggregate([i \in 1..Len(samples) |->
                       judgeAndScoreSample(samples[i], draws[i], selectedMetrics)],
                   selectedMetrics)

\* ------------------------------------------------- the reflection rewriter
\* The reflection call either answers a text or throws; "throw" is the
\* draw that stands for the thrown error.
ReflectionDraws == ReflectionTexts \cup {"throw"}

improvePromptLosesPrompt(currentPrompt, reflection) ==
    IF reflection = "throw" THEN "" ELSE trim(reflection)

improvePrompt(currentPrompt, reflection) ==
    IF reflection = "throw" THEN currentPrompt ELSE trim(reflection)

\* ------------------------------------------------------ the Pareto frontier
RECURSIVE dominatesFrom(_, _, _, _)
dominatesFrom(a, b, rest, strictlyBetterInOne) ==
    IF rest = <<>> THEN strictlyBetterInOne
    ELSE LET aValue == MetricOrZero(a, Head(rest))
             bValue == MetricOrZero(b, Head(rest))
         IN IF aValue < bValue THEN FALSE
            ELSE dominatesFrom(a, b, Tail(rest),
                               strictlyBetterInOne \/ aValue > bValue)

\* dominance that also counts equal metrics
dominatesOrEqual(a, b, selectedMetrics) == dominatesFrom(a, b, selectedMetrics, TRUE)

dominates(a, b, selectedMetrics) == dominatesFrom(a, b, selectedMetrics, FALSE)

\* The loop of updateParetoFrontier over the existing candidates: the state
\* of the loop is the pair (nonDominated, newCandidateIsNonDominated).
RECURSIVE frontierLoop(_, _, _, _, _)
frontierLoop(rest, newCandidate, selectedMetrics, nonDominated, newIsNonDominated) ==
    IF rest = <<>>
    THEN IF newIsNonDominated THEN Append(nonDominated, newCandidate) ELSE nonDominated
    ELSE LET existing == Head(rest)
         IN frontierLoop(
              Tail(rest), newCandidate, selectedMetrics,
              IF ~dominates(newCandidate.metrics, existing.metrics, selectedMetrics)
                THEN Append(nonDominated, existing) ELSE nonDominated,
              newIsNonDominated
                /\ ~dominates(existing.metrics, newCandidate.metrics, selectedMetrics))

\* the update without its pruning of the existing candidates
updateParetoFrontierKeepsAll(coll, newCandidate, selectedMetrics) ==
    Append(coll, newCandidate)

updateParetoFrontier(coll, newCandidate, selectedMetrics) ==
    frontierLoop(coll, newCandidate, selectedMetrics, <<>>, TRUE)

\* collection.reduce((best, current) => current.overallScore > best.overallScore
\*                                       ? current : best), on a non-empty array
RECURSIVE reduceBest(_, _)
reduceBest(best, rest) ==
    IF rest = <<>> THEN best
    ELSE reduceBest(IF Head(rest).overallScore > best.overallScore
                      THEN Head(rest) ELSE best,
                    Tail(rest))

\* a selector that returns the oldest candidate
selectPromptFirst(coll) == Head(coll)

selectPrompt(coll) == reduceBest(Head(coll), Tail(coll))

\* ------------------------------------------------------------------ state
VARIABLES
    files,              \* data/samples.json, data/prompt.md and data/schema.json
    judgeGrain,         \* how fine the reflection model's scores are: k/judgeGrain
    llm,                \* how the two models answer in this run
    config,             \* the OptimizeRequest of the POST
    pc,                 \* where runGEPA stands
    allSamples,         \* runGEPA: the loaded samples
    seedPrompt,         \* runGEPA: the loaded seed prompt
    schema,             \* runGEPA: the loaded schema, or null
    collection,         \* runGEPA: the candidate collection
    bestScore,          \* runGEPA: let bestScore
    iteration,          \* runGEPA: the loop counter
    selectedCandidate,  \* iteration locals, meaningful inside one iteration
    batch,
    batchEval,
    improvedPrompt,
    improvedEval,
    reflectionThrew,    \* improvePrompt took its catch branch in this iteration
    events,             \* the records enqueued on the response stream, in order
    streamClosed,       \* controller.close() has run
    tasks,              \* evaluateBatch: the per-sample calls of Promise.all, by position
    completion,         \* evaluateBatch: the positions in the order their calls resolved
    isOptimizing,       \* optimize page: useState isOptimizing
    body,               \* the response body: the bytes enqueued and not yet read
    partial,            \* optimize page: bytes the TextDecoder holds back (stream: true)
    buffer,             \* optimize page: let buffer
    iterations,         \* optimize page: useState iterations, the results delivered
    readerDone,         \* optimize page: the read loop has met done
    configFile,         \* config-loader: what is at configPath on disk
    cachedConfig,       \* config-loader: let cachedConfig (<<>> is null)
    configWatcher,      \* config-loader: let configWatcher is set
    watchEvents,        \* config-loader: fs.watch events not yet delivered to the listener
    loaded              \* config-loader: what the calls of loadUserConfig returned, in order

vars == <<files, judgeGrain, llm, config, pc, allSamples, seedPrompt, schema, collection, bestScore,
          iteration, selectedCandidate, batch, batchEval, improvedPrompt,
          improvedEval, reflectionThrew, events, streamClosed, tasks, completion,
          isOptimizing, body, partial, buffer, iterations, readerDone,
          configFile, cachedConfig, configWatcher, watchEvents, loaded>>

fanOut == <<tasks, completion>>

pageState == <<isOptimizing, body, partial, buffer, iterations, readerDone>>

loaderState == <<configFile, cachedConfig, configWatcher, watchEvents, loaded>>

\* the page has posted its request and reads the response: setIsOptimizing(true),
\* setIterations([]), let buffer = ""
PageInit ==
    /\ isOptimizing = TRUE
    /\ body = <<>>
    /\ partial = <<>>
    /\ buffer = <<>>
    /\ iterations = <<>>
    /\ readerDone = FALSE

\* the module state of config-loader before its first call
LoaderInit ==
    /\ cachedConfig = <<>>
    /\ configWatcher = FALSE
    /\ watchEvents = <<>>
    /\ loaded = <<>>

locals == <<selectedCandidate, batch, batchEval, improvedPrompt, improvedEval,
            reflectionThrew>>

DefaultPrompt == "You are a helpful assistant."
NoCandidate == [id |-> <<"none", 0>>, prompt |-> "", metrics |-> EmptyMetrics,
                overallScore |-> 0, bestForExamples |-> <<>>]

\* loadSamples: the samples of the file, [] when it cannot be read
loadSamples(f) == [i \in 1..f.samples |-> i]

\* loadPrompt: the trimmed file, the default prompt when it cannot be read
loadPrompt(f) == IF f.prompt = "missing" THEN DefaultPrompt ELSE trim(f.prompt)

\* loadSchema: the parsed file, null when it cannot be read
Null == "null"
loadSchema(f) == IF f.schema = "missing" THEN Null ELSE f.schema

\* sample.messages.find(...) of generateTrajectoryForSample stands before the
\* try block: it throws on a sample of the file that has no messages array,
\* and Promise.all then rejects the whole batch evaluation.
HasMessages(sample) == sample \notin files.malformed
Throws(b) == \E i \in 1..Len(b) : ~HasMessages(b[i])

\* for (i < batchSize) batch.push(allSamples[random index])
Batches == [1..config.batchSize -> Range(allSamples)]

\* How the models answer in a run.  "free": any answer at every call.
\* "constant": the judge gives the one answer llm.draw at every call.
\* "scripted": the judge scores the seed prompt 0.4 and every other prompt
\* 0.8 on accuracy, and the rewriter answers "REWRITE_N" in iteration N.
NoDraw == [ok |-> FALSE, scores |-> EmptyMetrics]
Free == [kind |-> "free", draw |-> NoDraw]
Scripted == [kind |-> "scripted", draw |-> NoDraw]
LLMs(selectedMetrics, grain) ==
    {Free} \cup {[kind |-> "constant", draw |-> d] : d \in JudgeDraws(selectedMetrics, grain)}

scriptedDraw(prompt) ==
    [ok |-> TRUE,
     scores |-> [m \in ActiveDimensions(config.selectedMetrics) |->
                    IF prompt = seedPrompt THEN 2 * (One \div judgeGrain)
                    ELSE 4 * (One \div judgeGrain)]]

\* the judge's answers for the samples of batch b evaluated with a prompt
DrawsFor(b, prompt) ==
    CASE llm.kind = "free" -> [1..Len(b) -> JudgeDraws(config.selectedMetrics, judgeGrain)]
      [] llm.kind = "constant" -> {[i \in 1..Len(b) |-> llm.draw]}
      [] llm.kind = "scripted" -> {[i \in 1..Len(b) |-> scriptedDraw(prompt)]}

\* the rewriter's answers in one iteration
RewriterDraws(it) ==
    IF llm.kind = "scripted" THEN {"REWRITE_" \o ToString(it)} ELSE ReflectionDraws

\* The requests, the data files and the judge a run is started with.
Requests == [batchSize : 0..MaxBatch, numRollouts : 0..MaxRollouts,
             selectedMetrics : MetricLists, useStructuredOutput : BOOLEAN]

DataFiles ==
    {f \in [samples : 0..MaxSamples, prompt : {SeedFileText},
            schema : {"missing", "schema"}, malformed : SUBSET (1..MaxSamples)] :
        f.malformed \subseteq 1..f.samples}

\* the run of the scenario "happy path, deterministic improvement"
HappyPathFiles == [samples |-> 3, prompt |-> SeedFileText, schema |-> "missing",
                   malformed |-> {}]
HappyPathRequests == [batchSize : {2}, numRollouts : {3},
                      selectedMetrics : {<<>>, <<"accuracy">>},
                      useStructuredOutput : {FALSE}]

Max(a, b) == IF a >= b THEN a ELSE b

Work(c, f, grain) ==
    c.batchSize * c.numRollouts * Max(1, Len(c.selectedMetrics)) * grain * f.samples

SeededWork(c, f, grain) ==
    c.batchSize * (1 + c.numRollouts) * Max(1, Len(c.selectedMetrics)) * grain * f.samples

Init ==
    /\ \/ /\ files \in DataFiles
          /\ judgeGrain \in 1..MaxScore
          /\ config \in Requests
          /\ Work(config, files, judgeGrain) <= MaxWork
          /\ (config.useStructuredOutput \/ files.malformed # {})
                => SeededWork(config, files, judgeGrain) <= MaxExtraWork
          /\ ~config.useStructuredOutput => files.schema = "missing"
          /\ llm \in LLMs(config.selectedMetrics, judgeGrain)
       \/ /\ files = HappyPathFiles
          /\ judgeGrain = 5
          /\ config \in HappyPathRequests
          /\ llm = Scripted
    /\ pc = "start"
    /\ allSamples = <<>>
    /\ seedPrompt = ""
    /\ schema = Null
    /\ collection = <<>>
    /\ bestScore = 0
    /\ iteration = 0
    /\ selectedCandidate = NoCandidate
    /\ batch = <<>>
    /\ batchEval = EmptyEval
    /\ improvedPrompt = ""
    /\ improvedEval = EmptyEval
    /\ reflectionThrew = FALSE
    /\ events = <<>>
    /\ streamClosed = FALSE
    /\ tasks = <<>>
    /\ completion = <<>>
    /\ PageInit
    /\ configFile = "missing"
    /\ LoaderInit

\* sendProgress: controller.enqueue of one record
sendProgress(data) == events' = Append(events, data)

\* the no-samples branch without its return: the run goes on to the seed
NoSamplesThenStart ==
    /\ pc = "start"
    /\ Len(loadSamples(files)) = 0
    /\ allSamples' = loadSamples(files)
    /\ seedPrompt' = loadPrompt(files)
    /\ schema' = IF config.useStructuredOutput THEN loadSchema(files) ELSE Null
    /\ sendProgress([type |-> "error", iteration |-> 0, accepted |-> FALSE,
                     collectionSize |-> 0, bestScore |-> 0,
                     error |-> "No samples found"])
    /\ pc' = "seed"
    /\ UNCHANGED <<pageState, loaderState, fanOut, files, judgeGrain, llm, config, collection, bestScore, iteration, locals,
                   streamClosed>>

\* runGEPA up to the first evaluation: load, the no-samples error, the start event
NoSamples ==
    /\ pc = "start"
    /\ Len(loadSamples(files)) = 0
    /\ allSamples' = loadSamples(files)
    /\ seedPrompt' = loadPrompt(files)
    /\ schema' = IF config.useStructuredOutput THEN loadSchema(files) ELSE Null
    /\ sendProgress([type |-> "error", iteration |-> 0, accepted |-> FALSE,
                     collectionSize |-> 0, bestScore |-> 0,
                     error |-> "No samples found"])
    /\ pc' = "done"
    /\ streamClosed' = TRUE
    /\ UNCHANGED <<pageState, loaderState, fanOut, files, judgeGrain, llm, config, collection, bestScore, iteration, locals>>

Start ==
    /\ pc = "start"
    /\ Len(loadSamples(files)) # 0
    /\ allSamples' = loadSamples(files)
    /\ seedPrompt' = loadPrompt(files)
    /\ schema' = IF config.useStructuredOutput THEN loadSchema(files) ELSE Null
    /\ sendProgress([type |-> "start", iteration |-> 0, collectionSize |-> 1,
                     bestScore |-> 0, accepted |-> FALSE])
    /\ pc' = "seed"
    /\ UNCHANGED <<pageState, loaderState, fanOut, files, judgeGrain, llm, config, collection, bestScore, iteration, locals,
                   streamClosed>>

\* the seed evaluation and the initial collection
SeedEval ==
    /\ pc = "seed"
    /\ \E initialBatch \in Batches :
       /\ ~Throws(initialBatch)
       /\ \E draws \in DrawsFor(initialBatch, seedPrompt) :
          LET initialEval == evaluateBatch(initialBatch, draws, config.selectedMetrics)
          IN /\ collection' = <<[id |-> SeedId, prompt |-> seedPrompt,
                                 metrics |-> initialEval.metrics,
                                 overallScore |-> initialEval.overallScore,
                                 bestForExamples |-> <<>>]>>
             /\ bestScore' = initialEval.overallScore
    /\ iteration' = 1
    /\ pc' = "loop"
    /\ UNCHANGED <<pageState, loaderState, fanOut, files, judgeGrain, llm, config, allSamples, seedPrompt, schema, locals, events, streamClosed>>

\* loop head: select the parent, draw the batch, evaluate the parent on it
EvaluateParent ==
    /\ pc = "loop"
    /\ iteration <= config.numRollouts
    /\ selectedCandidate' = selectPrompt(collection)
    /\ \E b \in Batches :
       /\ ~Throws(b)
       /\ \E draws \in DrawsFor(b, selectPrompt(collection).prompt) :
          /\ batch' = b
          /\ batchEval' = evaluateBatch(b, draws, config.selectedMetrics)
    /\ pc' = "reflect"
    /\ UNCHANGED <<pageState, loaderState, fanOut, files, judgeGrain, llm, config, allSamples, seedPrompt, schema, collection, bestScore,
                   iteration, improvedPrompt, improvedEval, reflectionThrew,
                   events, streamClosed>>

\* improvePrompt on the parent's prompt
Reflect ==
    /\ pc = "reflect"
    /\ \E reflection \in RewriterDraws(iteration) :
          /\ improvedPrompt' = improvePrompt(selectedCandidate.prompt, reflection)
          /\ reflectionThrew' = (reflection = "throw")
    /\ pc' = "reeval"
    /\ UNCHANGED <<pageState, loaderState, fanOut, files, judgeGrain, llm, config, allSamples, seedPrompt, schema, collection, bestScore,
                   iteration, selectedCandidate, batch, batchEval, improvedEval,
                   events, streamClosed>>

\* the improved prompt on the same batch
EvaluateImproved ==
    /\ pc = "reeval"
    /\ \E draws \in DrawsFor(batch, improvedPrompt) :
          improvedEval' = evaluateBatch(batch, draws, config.selectedMetrics)
    /\ pc' = "decide"
    /\ UNCHANGED <<pageState, loaderState, fanOut, files, judgeGrain, llm, config, allSamples, seedPrompt, schema, collection, bestScore,
                   iteration, selectedCandidate, batch, batchEval, improvedPrompt,
                   reflectionThrew, events, streamClosed>>

\* the locals of the loop body end with the iteration
EndIteration ==
    /\ selectedCandidate' = NoCandidate
    /\ batch' = <<>>
    /\ batchEval' = EmptyEval
    /\ improvedPrompt' = ""
    /\ improvedEval' = EmptyEval
    /\ reflectionThrew' = FALSE
    /\ iteration' = iteration + 1
    /\ pc' = "loop"

\* if (improvedEval.overallScore > batchEval.overallScore)
acceptTestAlsoOnTie(improvedScore, parentScore) == improvedScore >= parentScore

acceptTestSwapped(improvedScore, parentScore) == parentScore > improvedScore

acceptTest(improvedScore, parentScore) == improvedScore > parentScore

\* if (improvedEval.overallScore > bestScore) bestScore = improvedEval.overallScore
updateBestAlways(best, improvedScore) == improvedScore

updateBest(best, improvedScore) == IF improvedScore > best THEN improvedScore ELSE best

Accept ==
    /\ pc = "decide"
    /\ acceptTest(improvedEval.overallScore, batchEval.overallScore)
    /\ LET newCandidate == [id |-> CandidateId(iteration),
                            prompt |-> improvedPrompt,
                            metrics |-> improvedEval.metrics,
                            overallScore |-> improvedEval.overallScore,
                            bestForExamples |-> <<>>]
       IN collection' = updateParetoFrontier(collection, newCandidate,
                                             config.selectedMetrics)
    /\ bestScore' = updateBest(bestScore, improvedEval.overallScore)
    /\ sendProgress([type |-> "iteration", iteration |-> iteration,
                     candidatePrompt |-> improvedPrompt,
                     batchScore |-> improvedEval.overallScore,
                     accepted |-> TRUE,
                     collectionSize |-> Len(collection'),
                     bestScore |-> bestScore',
                     metrics |-> improvedEval.metrics])
    /\ EndIteration
    /\ UNCHANGED <<pageState, loaderState, fanOut, files, judgeGrain, llm, config, allSamples, seedPrompt, schema, streamClosed>>

Reject ==
    /\ pc = "decide"
    /\ ~acceptTest(improvedEval.overallScore, batchEval.overallScore)
    /\ sendProgress([type |-> "iteration", iteration |-> iteration,
                     batchScore |-> batchEval.overallScore,
                     accepted |-> FALSE,
                     collectionSize |-> Len(collection),
                     bestScore |-> bestScore])
    /\ EndIteration
    /\ UNCHANGED <<pageState, loaderState, fanOut, files, judgeGrain, llm, config, allSamples, seedPrompt, schema, collection, bestScore,
                   streamClosed>>

\* a final event that reports the default prompt and no score
CompleteReportsDefault ==
    /\ pc = "loop"
    /\ iteration > config.numRollouts
    /\ sendProgress([type |-> "complete", iteration |-> config.numRollouts,
                     finalPrompt |-> DefaultPrompt,
                     bestScore |-> 0,
                     collectionSize |-> Len(collection),
                     collection |-> collection,
                     accepted |-> TRUE])
    /\ pc' = "done"
    /\ streamClosed' = TRUE
    /\ UNCHANGED <<pageState, loaderState, fanOut, files, judgeGrain, llm, config, allSamples, seedPrompt, schema,
                   collection, bestScore, iteration, locals>>

\* after the loop: the final result, then POST closes the stream
Complete ==
    /\ pc = "loop"
    /\ iteration > config.numRollouts
    /\ sendProgress([type |-> "complete", iteration |-> config.numRollouts,
                     finalPrompt |-> selectPrompt(collection).prompt,
                     bestScore |-> bestScore,
                     collectionSize |-> Len(collection),
                     collection |-> collection,
                     accepted |-> TRUE])
    /\ pc' = "done"
    /\ streamClosed' = TRUE
    /\ UNCHANGED <<pageState, loaderState, fanOut, files, judgeGrain, llm, config, allSamples, seedPrompt, schema, collection, bestScore,
                   iteration, locals>>

\* POST: an error thrown out of runGEPA reaches the catch block, which sends
\* one error event; finally closes the stream.  The throw is that of a batch
\* evaluation that meets a sample without messages, at the seed evaluation
\* or at the parent's evaluation of an iteration.
FatalError ==
    /\ \/ pc = "seed"
       \/ pc = "loop" /\ iteration <= config.numRollouts
    /\ \E b \in Batches : Throws(b)
    /\ sendProgress([type |-> "error", error |-> "TypeError", iteration |-> 0,
                     accepted |-> FALSE, collectionSize |-> 0, bestScore |-> 0])
    /\ pc' = "done"
    /\ streamClosed' = TRUE
    /\ UNCHANGED <<pageState, loaderState, fanOut, files, judgeGrain, llm, config, allSamples, seedPrompt, schema,
                   collection, bestScore, iteration, locals>>

Next ==
    \/ NoSamples
    \/ Start
    \/ SeedEval
    \/ EvaluateParent
    \/ Reflect
    \/ EvaluateImproved
    \/ Accept
    \/ Reject
    \/ Complete
    \/ FatalError

Spec == Init /\ [][Next]_vars

TypeOK ==
    /\ pc \in {"start", "seed", "loop", "reflect", "reeval", "decide", "done"}
    /\ iteration \in 0..(config.numRollouts + 1)
    /\ Len(events) <= config.numRollouts + 2
    /\ tasks = <<>>
    /\ completion = <<>>

\* ------------------------------------------- one batch evaluation, unfolded
\* evaluateBatch as the calls it is made of: Promise.all over one
\* evaluateSampleWithPrompt per position of the batch, each of them the task
\* model's call (generateTrajectoryForSample) followed by the judge's call.

\* Message contents are kept as arrays of parts; a content that is a plain
\* string in the code is the array of its one text part.
Part(type, text, toolCallId) == [type |-> type, text |-> text, toolCallId |-> toolCallId]
TextContent(t) == <<Part("text", t, "")>>
Message(role, content) == [role |-> role, content |-> content]

ErrorMarker == "[Error generating response]"

\* the content of the sample's first user message
userInput(sample) == "input-" \o ToString(sample)

\* JSON.stringify(result.object, null, 2)
stringify(object) == "{" \o object \o "}"

\* What the task model may answer: a generateText result (its steps and its
\* text), a generateObject result (its object), or a thrown error.
Step(toolCalls, toolResults, text) ==
    [toolCalls |-> toolCalls, toolResults |-> toolResults, text |-> text]
Answer(threw, steps, text, object) ==
    [threw |-> threw, steps |-> steps, text |-> text, object |-> object]

Thrown == Answer(TRUE, <<>>, "", "")
PlainAnswer == Answer(FALSE, <<Step(<<>>, <<>>, "answer")>>, "answer", "")
ToolAnswer ==
    Answer(FALSE, <<Step(<<"call-1">>, <<"call-1">>, ""), Step(<<>>, <<>>, "answer")>>,
           "answer", "")
SilentAnswer == Answer(FALSE, <<Step(<<>>, <<>>, "")>>, "", "")
\* a step with two tool calls whose results come back in the other order and
\* with a text, then a step whose tool call has no result, then the answer;
\* the results of a step are results of that step's calls
ToolsAnswer ==
    Answer(FALSE, <<Step(<<"call-1", "call-2">>, <<"call-2", "call-1">>, "thinking"),
                    Step(<<"call-3">>, <<>>, ""),
                    Step(<<>>, <<>>, "answer")>>,
           "answer", "")
ObjectAnswer == Answer(FALSE, <<>>, "", "object")

TaskModelAnswers(useStructuredOutput, sch) ==
    IF useStructuredOutput /\ sch # Null
    THEN IF llm.kind = "free" THEN {ObjectAnswer, Thrown} ELSE {ObjectAnswer}
    ELSE IF llm.kind = "free"
         THEN {PlainAnswer, ToolAnswer, ToolsAnswer, SilentAnswer, Thrown}
         ELSE {PlainAnswer}

\* a step whose tool messages come before the assistant's tool-call message
stepMessagesResultsFirst(step) ==
    (IF Len(step.toolCalls) > 0
       THEN [k \in 1..Len(step.toolResults) |->
                Message("tool", <<Part("tool-result", "", step.toolResults[k])>>)]
            \o <<Message("assistant",
                         [k \in 1..Len(step.toolCalls) |->
                             Part("tool-call", "", step.toolCalls[k])])>>
       ELSE <<>>)
    \o (IF step.text # "" THEN <<Message("assistant", TextContent(step.text))>> ELSE <<>>)

\* the messages one step of a generateText result adds
stepMessages(step) ==
    (IF Len(step.toolCalls) > 0
       THEN <<Message("assistant",
                      [k \in 1..Len(step.toolCalls) |->
                          Part("tool-call", "", step.toolCalls[k])])>>
            \o [k \in 1..Len(step.toolResults) |->
                   Message("tool", <<Part("tool-result", "", step.toolResults[k])>>)]
       ELSE <<>>)
    \o (IF step.text # "" THEN <<Message("assistant", TextContent(step.text))>> ELSE <<>>)

RECURSIVE stepsMessages(_)
stepsMessages(steps) ==
    IF steps = <<>> THEN <<>>
    ELSE stepMessages(Head(steps)) \o stepsMessages(Tail(steps))

\* a generator whose catch block keeps the user message only
generateTrajectoryWithoutMarker(sample, answer, useStructuredOutput, sch) ==
    [id |-> "predicted-" \o ToString(sample),
     messages |-> <<Message("user", TextContent(userInput(sample)))>>]

generateTrajectoryForSample(sample, answer, useStructuredOutput, sch) ==
    LET user == Message("user", TextContent(userInput(sample)))
        predictedMessages ==
            IF answer.threw
            THEN <<user, Message("assistant", TextContent(ErrorMarker))>>
            ELSE IF useStructuredOutput /\ sch # Null
            THEN <<user, Message("assistant", TextContent(stringify(answer.object)))>>
            ELSE LET fromSteps == <<user>> \o stepsMessages(answer.steps)
                 IN IF Len(fromSteps) = 1
                    THEN Append(fromSteps, Message("assistant", TextContent(answer.text)))
                    ELSE fromSteps
    IN [id |-> "predicted-" \o ToString(sample), messages |-> predictedMessages]

NoTrajectory == [id |-> "", messages |-> <<>>]
NoResult == [metrics |-> EmptyMetrics, overallScore |-> 0,
             detailedFeedback |-> <<"feedback", 0>>,
             suggestedImprovements |-> <<"suggestion", 0>>]

\* one evaluateSampleWithPrompt call: "generating" while the task model's
\* call is awaited, "judging" while the judge's call is awaited, "done" once
\* its promise is resolved, "threw" once it is rejected
Task(stage, generationFailed, trajectory, judgeFailed, result) ==
    [stage |-> stage, generationFailed |-> generationFailed, trajectory |-> trajectory,
     judgeFailed |-> judgeFailed, result |-> result]

\* Promise.all: the resolved values by position, whatever order they came in
awaitAllAsCompleted(t, resolved) == [k \in 1..Len(resolved) |-> t[resolved[k]].result]

awaitAll(t, resolved) == [i \in 1..Len(t) |-> t[i].result]

runState == <<files, judgeGrain, llm, config, allSamples, seedPrompt, schema, collection,
              bestScore, iteration, selectedCandidate, improvedPrompt, improvedEval,
              reflectionThrew, events, streamClosed, pageState, loaderState>>

\* a batch of one more sample than four
WideRequest == [batchSize |-> 5, numRollouts |-> 0, selectedMetrics |-> <<>>,
                useStructuredOutput |-> FALSE]
WideFiles == [samples |-> 1, prompt |-> SeedFileText, schema |-> "missing", malformed |-> {}]

BatchWork(c, f, grain) == c.batchSize * Max(1, Len(c.selectedMetrics)) * grain * f.samples

\* evaluateBatch is called with a batch of the loaded samples and a prompt
BatchInit ==
    /\ \/ /\ files \in DataFiles
          /\ files.samples >= 1
          /\ judgeGrain \in 1..MaxScore
          /\ config \in Requests
          /\ config.numRollouts = 0
          /\ BatchWork(config, files, judgeGrain) <= MaxBatchWork
          /\ ~config.useStructuredOutput => files.schema = "missing"
          /\ llm = Free
       \/ /\ files = WideFiles
          /\ judgeGrain = 1
          /\ config = WideRequest
          /\ llm \in LLMs(config.selectedMetrics, judgeGrain) \ {Free}
    /\ pc = "call"
    /\ allSamples = loadSamples(files)
    /\ seedPrompt = loadPrompt(files)
    /\ schema = (IF config.useStructuredOutput THEN loadSchema(files) ELSE Null)
    /\ batch \in Batches
    /\ batchEval = EmptyEval
    /\ collection = <<>>
    /\ bestScore = 0
    /\ iteration = 0
    /\ selectedCandidate = NoCandidate
    /\ improvedPrompt = ""
    /\ improvedEval = EmptyEval
    /\ reflectionThrew = FALSE
    /\ events = <<>>
    /\ streamClosed = FALSE
    /\ tasks = <<>>
    /\ completion = <<>>
    /\ PageInit
    /\ configFile = "missing"
    /\ LoaderInit

\* if (samples.length === 0) return the zero result
EmptyBatch ==
    /\ pc = "call"
    /\ Len(batch) = 0
    /\ batchEval' = EmptyEval
    /\ pc' = "returned"
    /\ UNCHANGED <<runState, batch, fanOut>>

\* samples.map(...): every call runs up to its first await, so every sample
\* that has messages has its task-model call in flight when map returns; the
\* call of a sample without messages is rejected at once
FanOut ==
    /\ pc = "call"
    /\ Len(batch) > 0
    /\ tasks' = [i \in 1..Len(batch) |->
                    Task(IF HasMessages(batch[i]) THEN "generating" ELSE "threw",
                         FALSE, NoTrajectory, FALSE, NoResult)]
    /\ pc' = "awaiting"
    /\ UNCHANGED <<runState, batch, batchEval, completion>>

\* the task model's call of one sample settles
Generated(i) ==
    /\ pc = "awaiting"
    /\ tasks[i].stage = "generating"
    /\ \E answer \in TaskModelAnswers(config.useStructuredOutput, schema) :
          tasks' = [tasks EXCEPT ![i] =
                       Task("judging", answer.threw,
                            generateTrajectoryForSample(batch[i], answer,
                                                        config.useStructuredOutput, schema),
                            FALSE, NoResult)]
    /\ UNCHANGED <<runState, pc, batch, batchEval, completion>>

\* the judge's call of one sample settles and the sample's promise resolves
Judged(i) ==
    /\ pc = "awaiting"
    /\ tasks[i].stage = "judging"
    /\ \E draws \in DrawsFor(<<batch[i]>>, seedPrompt) :
          tasks' = [tasks EXCEPT ![i] =
                       Task("done", tasks[i].generationFailed, tasks[i].trajectory,
                            ~draws[1].ok,
                            judgeAndScoreSample(batch[i], draws[1],
                                                config.selectedMetrics))]
    /\ completion' = Append(completion, i)
    /\ UNCHANGED <<runState, pc, batch, batchEval>>

\* Promise.all resolves once every call has resolved; the rest of
\* evaluateBatch aggregates the results
Assemble ==
    /\ pc = "awaiting"
    /\ \A i \in 1..Len(tasks) : tasks[i].stage = "done"
    /\ batchEval' = aggregate(awaitAll(tasks, completion), config.selectedMetrics)
    /\ pc' = "returned"
    /\ UNCHANGED <<runState, batch, fanOut>>

\* Promise.all rejects as soon as one call is rejected
Rejected ==
    /\ pc = "awaiting"
    /\ \E i \in 1..Len(tasks) : tasks[i].stage = "threw"
    /\ pc' = "rejected"
    /\ UNCHANGED <<runState, batch, batchEval, fanOut>>

BatchNext ==
    \/ EmptyBatch
    \/ FanOut
    \/ \E i \in 1..Len(tasks) : Generated(i)
    \/ \E i \in 1..Len(tasks) : Judged(i)
    \/ Assemble
    \/ Rejected

BatchSpec == BatchInit /\ [][BatchNext]_vars

\* --------------------------------------------------- no optimization run
\* The state of the run's variables while no request is being served.
IdleRequest == [batchSize |-> 0, numRollouts |-> 0, selectedMetrics |-> <<>>,
                useStructuredOutput |-> FALSE]
IdleFiles == [samples |-> 0, prompt |-> SeedFileText, schema |-> "missing", malformed |-> {}]

NoRun ==
    /\ files = IdleFiles
    /\ judgeGrain = 1
    /\ llm = Free
    /\ config = IdleRequest
    /\ pc = "idle"
    /\ allSamples = <<>>
    /\ seedPrompt = ""
    /\ schema = Null
    /\ collection = <<>>
    /\ bestScore = 0
    /\ iteration = 0
    /\ selectedCandidate = NoCandidate
    /\ batch = <<>>
    /\ batchEval = EmptyEval
    /\ improvedPrompt = ""
    /\ improvedEval = EmptyEval
    /\ reflectionThrew = FALSE
    /\ streamClosed = FALSE
    /\ tasks = <<>>
    /\ completion = <<>>

runVars == <<files, judgeGrain, llm, config, pc, allSamples, seedPrompt, schema, collection,
             bestScore, iteration, locals, streamClosed, fanOut>>

\* ------------------------------------------------- the configuration loader
\* What is at configPath: no file, a file whose load throws, or a file that
\* exports a configuration, told apart by its systemPrompt ("" when it
\* exports none).
MaxVersions == 2
MaxCalls == 2
MaxWatchEvents == 2

ConfigContents ==
    {"missing", "broken", ""} \cup {"v" \o ToString(k) : k \in 1..MaxVersions}

defaultConfig == [tools |-> "{}", systemPrompt |-> "undefined"]

\* "Merge with defaults": systemPrompt: userConfig.systemPrompt || undefined
mergeWithDefaults(content) ==
    [tools |-> "{}", systemPrompt |-> IF content = "" THEN "undefined" ELSE content]

\* the body of loadUserConfig below the cache test: the configuration the
\* file at configPath gives
readConfig(content) ==
    IF content \in {"missing", "broken"} THEN defaultConfig ELSE mergeWithDefaults(content)

\* if (cachedConfig) return cachedConfig
cacheHit(cache) == cache # <<>>

\* cachedConfig = null
clearConfigCache == <<>>

\* One call of loadUserConfig.  The watcher is set up only on the path that
\* loaded a file, and only once.
loadUserConfig ==
    /\ Len(loaded) < MaxCalls
    /\ LET result == IF cacheHit(cachedConfig) THEN cachedConfig[1]
                     ELSE readConfig(configFile)
       IN /\ cachedConfig' = <<result>>
          /\ loaded' = Append(loaded, [config |-> result, file |-> configFile,
                                       pending |-> Len(watchEvents)])
    /\ configWatcher' =
          (configWatcher \/ (~cacheHit(cachedConfig) /\ configFile \notin {"missing", "broken"}))
    /\ UNCHANGED <<configFile, watchEvents, runVars, events, pageState>>

\* The user changes the file: written in place (fs.watch reports "change"),
\* or created, deleted or replaced by a rename as editors that save
\* atomically do (fs.watch reports "rename").  An event is queued for the
\* listener when a watcher exists.
EditFile(content, eventType) ==
    /\ content # configFile
    /\ Len(watchEvents) < MaxWatchEvents
    /\ ("missing" \in {content, configFile}) => eventType = "rename"
    /\ configFile' = content
    /\ watchEvents' = IF configWatcher THEN Append(watchEvents, eventType) ELSE watchEvents
    /\ UNCHANGED <<cachedConfig, configWatcher, loaded, runVars, events, pageState>>

\* the listener given to watch(): clearConfigCache() on a "change" event
WatchListener ==
    /\ watchEvents # <<>>
    /\ cachedConfig' = IF Head(watchEvents) = "change" THEN clearConfigCache ELSE cachedConfig
    /\ watchEvents' = Tail(watchEvents)
    /\ UNCHANGED <<configFile, configWatcher, loaded, runVars, events, pageState>>

ConfigInit ==
    /\ NoRun
    /\ events = <<>>
    /\ PageInit
    /\ configFile \in ConfigContents
    /\ LoaderInit

ConfigNext ==
    \/ loadUserConfig
    \/ \E content \in ConfigContents, eventType \in {"change", "rename"} :
          EditFile(content, eventType)
    \/ WatchListener

ConfigSpec == ConfigInit /\ [][ConfigNext]_vars

\* -------------------------------------------- a run with the Stop button
\* The page shows the Stop button while isOptimizing.  handleStop changes
\* the page's state only: it aborts no request and sends nothing to the
\* server, and runGEPA reads no cancellation signal.
MaxStopWork == 4

handleStop ==
    /\ isOptimizing
    /\ isOptimizing' = FALSE
    /\ UNCHANGED <<runVars, events, body, partial, buffer, iterations, readerDone,
                   loaderState>>

StopInit ==
    /\ Init
    /\ SeededWork(config, files, judgeGrain) <= MaxStopWork

StopNext ==
    \/ Next
    \/ handleStop

StopSpec == StopInit /\ [][StopNext]_vars

\* ------------------------------------------ the event stream and its reader
\* Texts are sequences of characters and the response body is a sequence of
\* bytes.  The characters kept apart are those framing and JSON treat
\* specially, and one character that takes two bytes in UTF-8.
MaxStreamWork == 6

LF == "LF"
BS == "BS"
QUOTE == "QUOTE"
Wide == "WIDE"
Replacement == "U+FFFD"
LeadByte == "C3"
ContinuationByte == "A9"

TextChars == {LF, BS, "n", Wide}
Texts(longest) == UNION {[1..n -> TextChars] : n \in 0..longest}

DataPrefix == <<"d", "a", "t", "a", ":", " ">>

RECURSIVE escape(_)
escape(text) ==
    IF text = <<>> THEN <<>>
    ELSE (CASE Head(text) = LF -> <<BS, "n">>
            [] Head(text) = BS -> <<BS, BS>>
            [] Head(text) = QUOTE -> <<BS, QUOTE>>
            [] OTHER -> <<Head(text)>>) \o escape(Tail(text))

\* a stringify that leaves the text's characters as they are
jsonStringifyRaw(text) == <<QUOTE>> \o text \o <<QUOTE>>

\* JSON.stringify(data), data being one string
jsonStringify(text) == <<QUOTE>> \o escape(text) \o <<QUOTE>>

Failed == [ok |-> FALSE, value |-> <<>>]

RECURSIVE unescape(_)
unescape(s) ==
    IF s = <<>> THEN [ok |-> TRUE, value |-> <<>>]
    ELSE IF Head(s) = BS
    THEN IF Len(s) < 2 \/ s[2] \notin {"n", BS, QUOTE} THEN Failed
         ELSE LET rest == unescape(SubSeq(s, 3, Len(s)))
              IN [ok |-> rest.ok,
                  value |-> <<IF s[2] = "n" THEN LF ELSE s[2]>> \o rest.value]
    ELSE IF Head(s) \in {LF, QUOTE} THEN Failed
    ELSE LET rest == unescape(Tail(s))
         IN [ok |-> rest.ok, value |-> <<Head(s)>> \o rest.value]

\* JSON.parse(jsonString): fails (throws) on anything but one string literal
jsonParse(s) ==
    IF Len(s) < 2 \/ s[1] # QUOTE \/ s[Len(s)] # QUOTE THEN Failed
    ELSE unescape(SubSeq(s, 2, Len(s) - 1))

\* encoder.encode: UTF-8
RECURSIVE encode(_)
encode(text) ==
    IF text = <<>> THEN <<>>
    ELSE (IF Head(text) = Wide THEN <<LeadByte, ContinuationByte>> ELSE <<Head(text)>>)
         \o encode(Tail(text))

\* decoder.decode(value, {stream: true}) on the held bytes followed by the
\* chunk: a lead byte at the end is held back for the next call, a lead byte
\* with its continuation byte is one character, and a byte that fits
\* nowhere is the replacement character
decode(bytes) ==
    LET held == IF bytes # <<>> /\ bytes[Len(bytes)] = LeadByte THEN <<LeadByte>> ELSE <<>>
        usable == SubSeq(bytes, 1, Len(bytes) - Len(held))
        chars == [i \in 1..Len(usable) |->
                    IF usable[i] = LeadByte
                    THEN IF usable[i + 1] = ContinuationByte THEN Wide ELSE Replacement
                    ELSE IF usable[i] = ContinuationByte
                    THEN IF i > 1 /\ usable[i - 1] = LeadByte THEN "" ELSE Replacement
                    ELSE usable[i]]
    IN [text |-> SelectSeq(chars, LAMBDA c : c # ""), held |-> held]

startsWith(s, prefix) ==
    Len(s) >= Len(prefix) /\ SubSeq(s, 1, Len(prefix)) = prefix

\* String.prototype.split(separator): the pieces between the occurrences of
\* the separator, found from left to right; from is where the current piece
\* begins
RECURSIVE splitFrom(_, _, _)
splitFrom(s, separator, from) ==
    LET found == {i \in from..(Len(s) - Len(separator) + 1) :
                     SubSeq(s, i, i + Len(separator) - 1) = separator}
    IN IF found = {} THEN <<SubSeq(s, from, Len(s))>>
       ELSE LET first == CHOOSE i \in found : \A j \in found : i <= j
            IN <<SubSeq(s, from, first - 1)>>
               \o splitFrom(s, separator, first + Len(separator))

split(s, separator) == splitFrom(s, separator, 1)

RECURSIVE join(_, _)
join(pieces, separator) ==
    IF pieces = <<>> THEN <<>>
    ELSE IF Len(pieces) = 1 THEN pieces[1]
    ELSE pieces[1] \o separator \o join(Tail(pieces), separator)

\* !event.trim()
isBlank(event) == \A k \in 1..Len(event) : event[k] \in {LF, " "}

\* the body of "for (const event of events)": the results one event adds
\* to iterations, none when it is skipped or its JSON does not parse
handleEvent(event) ==
    IF isBlank(event) THEN <<>>
    ELSE LET withData == SelectSeq(split(event, <<LF>>),
                                   LAMBDA line : startsWith(line, DataPrefix))
             dataLines == [k \in 1..Len(withData) |->
                              SubSeq(withData[k], Len(DataPrefix) + 1, Len(withData[k]))]
         IN IF Len(dataLines) = 0 THEN <<>>
            ELSE LET result == jsonParse(join(dataLines, <<LF>>))
                 IN IF result.ok THEN <<result.value>> ELSE <<>>

RECURSIVE handleEvents(_)
handleEvents(evs) ==
    IF evs = <<>> THEN <<>> ELSE handleEvent(Head(evs)) \o handleEvents(Tail(evs))

\* what a stream costs to explore: one for each event and two for each
\* character of its text
RECURSIVE StreamWork(_)
StreamWork(sent) ==
    IF sent = <<>> THEN 0 ELSE 1 + 2 * Len(Head(sent)) + StreamWork(Tail(sent))

\* an upper bound of the bytes a stream within the budget has
ChunkSizes == 1..(10 * MaxStreamWork)

frameFrozen == <<files, judgeGrain, llm, config, pc, allSamples, seedPrompt, schema,
                 collection, bestScore, iteration, locals, fanOut, loaderState>>

\* sendProgress with the bytes it enqueues:
\* controller.enqueue(encoder.encode(`data: ${JSON.stringify(data)}\n\n`))
Enqueue(text) ==
    /\ ~streamClosed
    /\ StreamWork(events) + 1 + 2 * Len(text) <= MaxStreamWork
    /\ events' = Append(events, text)
    /\ body' = body \o encode(DataPrefix \o jsonStringify(text) \o <<LF, LF>>)
    /\ UNCHANGED <<frameFrozen, streamClosed, isOptimizing, partial, buffer, iterations,
                   readerDone>>

\* finally { controller.close() }
Close ==
    /\ ~streamClosed
    /\ streamClosed' = TRUE
    /\ UNCHANGED <<frameFrozen, events, pageState>>

\* one turn of the page's read loop on a chunk of n bytes: decode, append to
\* the buffer, split, keep the last piece, handle the others in order
Read(n) ==
    /\ ~readerDone
    /\ n <= Len(body)
    /\ \E decoded \in {decode(partial \o SubSeq(body, 1, n))} :
       \E pieces \in {split(buffer \o decoded.text, <<LF, LF>>)} :
          /\ partial' = decoded.held
          /\ buffer' = pieces[Len(pieces)]
          /\ iterations' = iterations \o handleEvents(SubSeq(pieces, 1, Len(pieces) - 1))
    /\ body' = SubSeq(body, n + 1, Len(body))
    /\ UNCHANGED <<frameFrozen, events, streamClosed, isOptimizing, readerDone>>

\* the read that reports done: the loop breaks and the handler's finally
\* block runs
ReadDone ==
    /\ ~readerDone
    /\ streamClosed
    /\ body = <<>>
    /\ readerDone' = TRUE
    /\ isOptimizing' = FALSE
    /\ UNCHANGED <<frameFrozen, events, streamClosed, body, partial, buffer, iterations>>

FrameInit ==
    /\ NoRun
    /\ events = <<>>
    /\ PageInit
    /\ configFile = "missing"
    /\ LoaderInit

FrameNext ==
    \/ \E text \in Texts(MaxStreamWork \div 2) : Enqueue(text)
    \/ Close
    \/ \E n \in ChunkSizes : Read(n)
    \/ ReadDone

FrameSpec == FrameInit /\ [][FrameNext]_vars

\* ================================================================ claims
LastEvent == events[Len(events)]

IsIterationEvent(e) == e.type = "iteration"

\* The candidate an accepting iteration builds from its locals.
BuiltCandidate ==
    [id |-> CandidateId(iteration), prompt |-> improvedPrompt,
     metrics |-> improvedEval.metrics, overallScore |-> improvedEval.overallScore,
     bestForExamples |-> <<>>]

\* Dominance as the claims state it: at least as good on every selected
\* dimension, strictly better on one.
Dominates(a, b) ==
    /\ \A m \in Range(config.selectedMetrics) : MetricOrZero(a, m) >= MetricOrZero(b, m)
    /\ \E m \in Range(config.selectedMetrics) : MetricOrZero(a, m) > MetricOrZero(b, m)

\* C1: the step that decides an iteration emits that iteration's event with
\* accepted exactly when the improved prompt's batch score is strictly
\* greater than the parent's score on the same batch (a tie is rejected),
\* and a candidate it adds scores strictly more than the parent did.
C1_AcceptedIffStrictlyBetter ==
    [][pc = "decide" =>
        /\ Len(events') = Len(events) + 1
        /\ IsIterationEvent(events'[Len(events')])
        /\ events'[Len(events')].iteration = iteration
        /\ events'[Len(events')].accepted
             <=> (improvedEval.overallScore > batchEval.overallScore)
        /\ improvedEval.feedbacks = batchEval.feedbacks
        /\ \A i \in 1..Len(collection') :
              collection'[i].id = CandidateId(iteration)
                => collection'[i].overallScore > batchEval.overallScore]_vars

\* a run in which one iteration was accepted and another was rejected
C1_Witness ==
    /\ \E i \in 1..Len(events) : IsIterationEvent(events[i]) /\ events[i].accepted
    /\ \E i \in 1..Len(events) : IsIterationEvent(events[i]) /\ ~events[i].accepted

\* C2: right after an iteration whose event reports accepted, the collection
\* holds candidate-<iteration> with the improved prompt and its batch scores.
C2_AcceptedCandidateIsInCollection ==
    (Len(events) > 0 /\ IsIterationEvent(LastEvent) /\ LastEvent.accepted)
        => \E i \in 1..Len(collection) :
              collection[i] = [id |-> CandidateId(LastEvent.iteration),
                               prompt |-> LastEvent.candidatePrompt,
                               metrics |-> LastEvent.metrics,
                               overallScore |-> LastEvent.batchScore,
                               bestForExamples |-> <<>>]

\* C3: the parent selected at the start of an iteration scores at least as
\* much as every candidate accepted so far in the run (it is the best of all
\* candidates ever added).
C3_ParentIsBestEverAdded ==
    pc = "reflect"
        => \A i \in 1..Len(events) :
              (IsIterationEvent(events[i]) /\ events[i].accepted)
                => selectedCandidate.overallScore >= events[i].batchScore

\* C4: no candidate retained in the collection dominates another retained
\* candidate under the selected metrics.
C4_NoRetainedCandidateDominated ==
    \A i, j \in 1..Len(collection) :
        ~Dominates(collection[i].metrics, collection[j].metrics)

\* a frontier of two candidates, reached by an accepted iteration
C4_Witness ==
    /\ Len(collection) = 2
    /\ \E i \in 1..Len(events) : IsIterationEvent(events[i]) /\ events[i].accepted

\* C5: the frontier update of an accepting iteration returns exactly the
\* existing candidates its new candidate does not dominate, in their order,
\* followed by the new candidate iff no existing candidate dominates it.
KeptOf(coll, n) == SelectSeq(coll, LAMBDA c : ~Dominates(n.metrics, c.metrics))

NewIfNonDominated(coll, n) ==
    IF \A i \in 1..Len(coll) : ~Dominates(coll[i].metrics, n.metrics)
      THEN <<n>> ELSE <<>>

C5_FrontierUpdateIsExact ==
    [][(pc = "decide" /\ improvedEval.overallScore > batchEval.overallScore) =>
          collection' = KeptOf(collection, BuiltCandidate)
                          \o NewIfNonDominated(collection, BuiltCandidate)]_vars

\* two mutually non-dominated candidates stayed after iteration 1, and the
\* candidate of iteration 2 dominated both and is alone in the frontier
C5_Witness ==
    /\ Len(events) >= 3
    /\ IsIterationEvent(events[2]) /\ events[2].accepted /\ events[2].collectionSize = 2
    /\ IsIterationEvent(events[3]) /\ events[3].accepted /\ events[3].collectionSize = 1
    /\ Len(collection) = 1
    /\ collection[1].id = CandidateId(2)

\* C6: once the seed is evaluated, bestScore never decreases, and it changes
\* only in the deciding step of an accepted iteration whose improved score
\* exceeds it, to that improved score.
C6_BestScoreNeverDecreases ==
    [][(pc \notin {"start", "seed"}) =>
          /\ bestScore' >= bestScore
          /\ bestScore' # bestScore =>
                /\ pc = "decide"
                /\ improvedEval.overallScore > batchEval.overallScore
                /\ improvedEval.overallScore > bestScore
                /\ bestScore' = improvedEval.overallScore]_vars

\* an accepted iteration raised bestScore above the seed's score, and a later
\* accepted iteration with a lower score left it alone
C6_Witness ==
    /\ Len(events) >= 3
    /\ IsIterationEvent(events[2]) /\ events[2].accepted
    /\ events[2].bestScore = events[2].batchScore
    /\ IsIterationEvent(events[3]) /\ events[3].accepted
    /\ events[3].batchScore < events[3].bestScore

\* C7: an iteration whose improved score is not strictly greater than the
\* parent's emits a rejection event and leaves the collection and bestScore
\* as they were.
C7_RejectionChangesNothing ==
    [][(pc = "decide" /\ ~(improvedEval.overallScore > batchEval.overallScore)) =>
          /\ collection' = collection
          /\ bestScore' = bestScore
          /\ events' = Append(events, events'[Len(events')])
          /\ IsIterationEvent(events'[Len(events')])
          /\ events'[Len(events')].iteration = iteration
          /\ ~events'[Len(events')].accepted
          /\ events'[Len(events')].collectionSize = Len(collection)]_vars

\* an iteration rejected on a tie of two non-zero scores, after an accepted one
C7_Witness ==
    /\ Len(events) >= 3
    /\ IsIterationEvent(events[2]) /\ events[2].accepted
    /\ IsIterationEvent(events[3]) /\ ~events[3].accepted
    /\ events[3].batchScore > 0
    /\ events[3].collectionSize = 2

\* C8: an iteration in which the reflection call failed is rejected and adds
\* no candidate, whatever the judge returns for the two evaluations.
C8_FailedReflectionIsRejected ==
    [][(pc = "decide" /\ reflectionThrew) =>
          /\ collection' = collection
          /\ ~events'[Len(events')].accepted]_vars

\* C9: when the reflection call throws, improvePrompt returns the parent's
\* prompt unchanged and the run goes on to the evaluation of that prompt on
\* the batch: nothing is emitted and the stream stays open.
C9_ReflectionFailureIsRecovered ==
    (pc \in {"reeval", "decide"} /\ reflectionThrew) =>
        /\ improvedPrompt = selectedCandidate.prompt
        /\ ~streamClosed
        /\ \A i \in 1..Len(events) : events[i].type # "error"
        /\ pc = "decide" => improvedEval.feedbacks = batchEval.feedbacks

\* the reflection call threw and the parent's prompt was evaluated again
C9_Witness ==
    /\ pc = "decide"
    /\ reflectionThrew
    /\ Len(batch) > 0
    /\ improvedEval.overallScore > 0

\* C10: when the reflection call fails in an iteration, a reflection_failed
\* event of that iteration is in the stream before the iteration's outcome
\* event is emitted.
C10_ReflectionFailedEventEmitted ==
    (pc \in {"reeval", "decide"} /\ reflectionThrew) =>
        \E i \in 1..Len(events) :
            events[i].type = "reflection_failed" /\ events[i].iteration = iteration

EventsOfType(t) == {i \in 1..Len(events) : events[i].type = t}

\* C11: an exception raised inside iteration k does not end the run: once
\* the loop is entered the run ends only with a complete event after all
\* numRollouts iterations, every iteration 1..numRollouts has left an
\* outcome event (iteration or iteration_error), and no error event is sent.
C11_IterationExceptionIsCaught ==
    (pc = "done" /\ iteration >= 1) =>
        /\ LastEvent.type = "complete"
        /\ EventsOfType("error") = {}
        /\ \A k \in 1..config.numRollouts :
              \E i \in 1..Len(events) :
                  /\ events[i].type \in {"iteration", "iteration_error"}
                  /\ events[i].iteration = k

\* C14: with an empty sample list the run sends exactly one event, the
\* no-samples error, and ends: it never reaches the seed evaluation or an
\* iteration, sends no start, iteration or complete event and creates no
\* candidate.
C14_NoSamplesOnlyError ==
    files.samples = 0 =>
        /\ pc \in {"start", "done"}
        /\ collection = <<>>
        /\ bestScore = 0
        /\ pc = "start" => events = <<>>
        /\ pc = "done" =>
              /\ Len(events) = 1
              /\ events[1].type = "error"
              /\ events[1].error = "No samples found"
              /\ streamClosed

\* a run over an empty sample file that asked for iterations has ended
C14_Witness ==
    /\ files.samples = 0
    /\ pc = "done"
    /\ config.numRollouts > 0
    /\ config.batchSize > 0
    /\ Len(events) = 1

\* C15: a run that asks for structured output while no schema can be loaded
\* stops before the seed evaluation: it evaluates nothing, creates no
\* candidate, and ends with an error event.
C15_MissingSchemaIsAnError ==
    (config.useStructuredOutput /\ loadSchema(files) = Null) =>
        /\ pc \in {"start", "done"}
        /\ collection = <<>>
        /\ pc = "done" => (Len(events) = 1 /\ events[1].type = "error")

\* C16 as stated: the scripted run accepts a candidate in each of the
\* iterations 1, 2 and 3 and completes with best score 0.8, final prompt
\* "REWRITE_3" and a collection of size 4.
C16_HappyPathAcceptsThrice ==
    (llm.kind = "scripted" /\ pc = "done") =>
        /\ \A k \in 1..3 :
              \E i \in 1..Len(events) :
                  /\ IsIterationEvent(events[i])
                  /\ events[i].iteration = k
                  /\ events[i].accepted
        /\ LastEvent.type = "complete"
        /\ LastEvent.bestScore = 4 * (One \div 5)
        /\ LastEvent.finalPrompt = "REWRITE_3"
        /\ LastEvent.collectionSize = 4

\* C16 amended: the scripted run accepts candidate-1 in iteration 1 and
\* rejects iterations 2 and 3, whose parent "REWRITE_1" already scores 0.8;
\* it completes with best score 0.8 and final prompt "REWRITE_1", and its
\* collection holds candidate-1 alone when accuracy is selected (the seed is
\* dominated), the seed and candidate-1 when no metric is selected.
C16_HappyPathAcceptsOnce ==
    (llm.kind = "scripted" /\ pc = "done") =>
        /\ Len(events) = 5
        /\ events[1].type = "start"
        /\ \A k \in 1..3 :
              /\ IsIterationEvent(events[k + 1])
              /\ events[k + 1].iteration = k
              /\ events[k + 1].accepted <=> (k = 1)
        /\ events[2].candidatePrompt = "REWRITE_1"
        /\ LastEvent.type = "complete"
        /\ LastEvent.bestScore = 4 * (One \div 5)
        /\ LastEvent.finalPrompt = "REWRITE_1"
        /\ LastEvent.collectionSize = (IF config.selectedMetrics = <<>> THEN 2 ELSE 1)
        /\ collection[Len(collection)].id = CandidateId(1)

\* the scripted run with accuracy selected has completed
C16_Witness ==
    /\ llm.kind = "scripted"
    /\ pc = "done"
    /\ config.selectedMetrics = <<"accuracy">>
    /\ Len(allSamples) = 3
    /\ LastEvent.type = "complete"

\* C17: a run with numRollouts = 0 over at least one sample evaluates the
\* seed only: it enters no iteration and sends no iteration event, and its
\* complete event carries the seed prompt as finalPrompt, the seed's batch
\* score as bestScore and a collection that is exactly the seed candidate.
C17_SeedPreservation ==
    (config.numRollouts = 0 /\ files.samples >= 1) =>
        /\ pc \in {"start", "seed", "loop", "done"}
        /\ EventsOfType("iteration") = {}
        /\ (pc = "done" /\ files.malformed = {}) => LastEvent.type = "complete"
        /\ (pc = "done" /\ LastEvent.type = "complete") =>
              /\ Len(events) = 2
              /\ LastEvent.finalPrompt = seedPrompt
              /\ seedPrompt = trim(files.prompt)
              /\ LastEvent.collectionSize = 1
              /\ Len(LastEvent.collection) = 1
              /\ LastEvent.collection[1].id = SeedId
              /\ LastEvent.collection[1].prompt = seedPrompt
              /\ LastEvent.bestScore = LastEvent.collection[1].overallScore
              /\ LastEvent.collection = collection

\* a run without iterations completed with a seed that scored above zero
C17_Witness ==
    /\ config.numRollouts = 0
    /\ config.batchSize = MaxBatch
    /\ pc = "done"
    /\ LastEvent.type = "complete"
    /\ LastEvent.bestScore > 0

\* C18: when the judge gives the same fixed answer at every evaluation, no
\* iteration is accepted whatever the rewriter answers: every iteration
\* event reports a rejection and a collection of size 1, the collection is
\* the seed alone throughout, and bestScore stays the seed's score.
C18_ConstantJudgeNeverAccepts ==
    llm.kind = "constant" =>
        /\ \A i \in EventsOfType("iteration") :
              /\ ~events[i].accepted
              /\ events[i].collectionSize = 1
              /\ events[i].bestScore = collection[1].overallScore
        /\ pc \in {"loop", "reflect", "reeval", "decide"} => Len(collection) = 1
        /\ Len(collection) <= 1
        /\ collection # <<>> =>
              /\ collection[1].id = SeedId
              /\ bestScore = collection[1].overallScore
        /\ pc = "decide" => improvedEval.overallScore = batchEval.overallScore

\* a run under a constant judge with a score above zero went through all of
\* its iterations, one of them with a rewritten prompt
C18_Witness ==
    /\ llm.kind = "constant"
    /\ llm.draw.ok
    /\ pc = "done"
    /\ config.numRollouts = MaxRollouts
    /\ config.batchSize > 0
    /\ bestScore > 0
    /\ LastEvent.type = "complete"
    /\ Cardinality(EventsOfType("iteration")) = MaxRollouts

\* the positions of the batch, and sums over sets of them
Positions == 1..Len(tasks)
ScoreSum(P) == SumOver([i \in P |-> tasks[i].result.overallScore], P)
MetricSum(m, P) == SumOver([i \in P |-> tasks[i].result.metrics[m]], P)

C13_GenerationFailureYieldsMarker ==
    \A i \in Positions :
        tasks[i].generationFailed =>
            /\ tasks[i].stage \in {"judging", "done"}
            /\ tasks[i].trajectory.id = "predicted-" \o ToString(batch[i])
            /\ Len(tasks[i].trajectory.messages) = 2
            /\ tasks[i].trajectory.messages[1].role = "user"
            /\ tasks[i].trajectory.messages[1].content = TextContent(userInput(batch[i]))
            /\ tasks[i].trajectory.messages[2].role = "assistant"
            /\ tasks[i].trajectory.messages[2].content = TextContent(ErrorMarker)
            /\ pc = "rejected" =>
                  \E j \in Positions \ {i} :
                      tasks[j].stage = "threw" /\ ~HasMessages(batch[j])
            /\ pc = "returned" =>
                  batchEval.feedbacks[i] = tasks[i].result.detailedFeedback

\* in structured mode with a schema, a sample whose generation failed was
\* judged with a score above zero and the batch has returned
C13_Witness ==
    /\ pc = "returned"
    /\ config.useStructuredOutput
    /\ schema # Null
    /\ \E i \in Positions :
          /\ tasks[i].generationFailed
          /\ tasks[i].stage = "done"
          /\ ~tasks[i].judgeFailed
          /\ tasks[i].result.overallScore > 0

\* the samples whose generate/judge pair is in flight
InFlight == {i \in Positions : tasks[i].stage \in {"generating", "judging"}}

\* C19: during a batch evaluation at most max_parallel = 4 samples have
\* their generate/judge pair in flight at the same time.
C19_InFlightAtMostMaxParallel == Cardinality(InFlight) <= 4

\* C20: whatever the order in which the per-sample calls resolve, the batch
\* evaluation returns only after all of them resolved, its feedbacks and
\* suggestions have one entry per sample with entry i that of the sample at
\* position i, and its scores are the means of the per-position results,
\* which do not depend on the order of resolution.
C20_ResultsInBatchOrder ==
    /\ pc \in {"call", "awaiting"} => batchEval = EmptyEval
    /\ (pc = "returned" /\ Len(batch) > 0) =>
          LET withMetric(m) == {i \in Positions : m \in DOMAIN tasks[i].result.metrics}
          IN /\ Len(tasks) = Len(batch)
             /\ \A i \in Positions : tasks[i].stage = "done"
             /\ Len(completion) = Len(batch)
             /\ DOMAIN batchEval.feedbacks = Positions
             /\ DOMAIN batchEval.suggestions = Positions
             /\ \A i \in Positions :
                   /\ batchEval.feedbacks[i] = tasks[i].result.detailedFeedback
                   /\ batchEval.feedbacks[i] = <<"feedback", batch[i]>>
                   /\ batchEval.suggestions[i] = tasks[i].result.suggestedImprovements
                   /\ batchEval.suggestions[i] = <<"suggestion", batch[i]>>
             /\ batchEval.overallScore * Len(batch) = ScoreSum(Positions)
             /\ \A m \in DOMAIN batchEval.metrics :
                   batchEval.metrics[m] * Cardinality(withMetric(m))
                       = MetricSum(m, withMetric(m))

\* the calls of two different samples resolved in the order opposite to the
\* batch's, with different results
C20_Witness ==
    /\ pc = "returned"
    /\ Len(batch) = 2
    /\ batch[1] # batch[2]
    /\ completion = <<2, 1>>
    /\ tasks[1].result.overallScore # tasks[2].result.overallScore

\* C29: from the seed evaluation on, the collection is never empty: it holds
\* a candidate at every step of every iteration and at completion, the
\* collectionSize of every iteration or complete event, as it is sent, is
\* at least one, and the
\* frontier update applied to the current collection and the iteration's
\* candidate returns a non-empty collection whether or not it is accepted.
C29_CollectionNeverEmpty ==
    /\ iteration >= 1 => Len(collection) >= 1
    /\ (events # <<>> /\ LastEvent.type \in {"iteration", "complete"}) =>
          LastEvent.collectionSize >= 1
    /\ pc = "decide" =>
          Len(updateParetoFrontier(collection, BuiltCandidate, config.selectedMetrics)) >= 1

\* an accepted candidate replaced the seed: the update pruned the collection
\* and still left a candidate in it
C29_Witness ==
    /\ pc = "loop"
    /\ iteration >= 2
    /\ Len(collection) = 1
    /\ collection[1].id # SeedId
    /\ LastEvent.type = "iteration"
    /\ LastEvent.accepted

\* C28: the finalPrompt of the complete event is the prompt of a candidate of
\* the final collection whose overallScore equals the reported bestScore.
C28_FinalPromptScoresBest ==
    (pc = "done" /\ LastEvent.type = "complete") =>
        \E i \in 1..Len(LastEvent.collection) :
            /\ LastEvent.collection[i].prompt = LastEvent.finalPrompt
            /\ LastEvent.collection[i].overallScore = LastEvent.bestScore

\* C25: a run over at least one sample ends with the event sequence start,
\* one iteration event for each of the iterations 1..numRollouts in
\* increasing order, then one complete event, which is the last event and
\* carries the final prompt, the best score and the collection, its
\* collectionSize being the collection's length.
C25_RunEndsWithComplete ==
    (pc = "done" /\ files.samples >= 1) =>
        /\ Len(events) = config.numRollouts + 2
        /\ events[1].type = "start"
        /\ \A k \in 1..config.numRollouts :
              events[k + 1].type = "iteration" /\ events[k + 1].iteration = k
        /\ LastEvent.type = "complete"
        /\ LastEvent.finalPrompt = selectPrompt(collection).prompt
        /\ LastEvent.bestScore = bestScore
        /\ LastEvent.collection = collection
        /\ LastEvent.collectionSize = Len(LastEvent.collection)

\* C24: the events of an iteration come in the order iteration_start, the
\* per-sample events, then one outcome event: every outcome event of an
\* iteration is preceded by the iteration_start event of that iteration.
C24_IterationStartPrecedesOutcome ==
    \A k \in 1..Len(events) :
        events[k].type \in {"iteration", "iteration_accepted", "iteration_rejected",
                            "iteration_error"} =>
            \E j \in 1..(k - 1) :
                /\ events[j].type = "iteration_start"
                /\ events[j].iteration = events[k].iteration

\* C23: observing a candidate records, for every sample it was scored on,
\* the best per-sample score and the candidates that attain it: once the
\* seed has been evaluated on a non-empty batch, the seed is listed as best
\* for at least one example.
C23_SeedIsBestForItsSamples ==
    (pc = "loop" /\ iteration = 1 /\ config.batchSize >= 1) =>
        \E i \in 1..Len(collection) : collection[i].bestForExamples # <<>>

\* C21: the metrics of a batch result are the dimensions present in at
\* least one per-sample result, no more and no fewer, and the value of each
\* is the mean over exactly the samples whose result has that dimension.
C21_BatchMetricsAreMeansOverPresent ==
    (pc = "returned" /\ Len(batch) > 0) =>
        LET withMetric(m) == {i \in Positions : m \in DOMAIN tasks[i].result.metrics}
            presentDimensions == UNION {DOMAIN tasks[i].result.metrics : i \in Positions}
        IN /\ DOMAIN batchEval.metrics = presentDimensions
           /\ \A m \in presentDimensions :
                 batchEval.metrics[m] * Cardinality(withMetric(m))
                     = MetricSum(m, withMetric(m))

\* C26: in every generated trajectory each tool-result part is preceded by
\* an assistant message holding a tool-call part of the same toolCallId, and
\* the tool messages of a step directly follow that step's assistant
\* tool-call message: between the two there are tool messages only.
C26_ToolResultsFollowTheirCalls ==
    \A i \in Positions :
        LET ms == tasks[i].trajectory.messages
        IN \A p \in 1..Len(ms) :
              \A r \in 1..Len(ms[p].content) :
                  ms[p].content[r].type = "tool-result" =>
                      /\ ms[p].role = "tool"
                      /\ \E q \in 1..(p - 1) :
                            /\ ms[q].role = "assistant"
                            /\ \E c \in 1..Len(ms[q].content) :
                                  /\ ms[q].content[c].type = "tool-call"
                                  /\ ms[q].content[c].toolCallId
                                        = ms[p].content[r].toolCallId
                            /\ \A x \in (q + 1)..(p - 1) : ms[x].role = "tool"

\* a trajectory whose first step made two tool calls and got the results in
\* the other order, followed by the step's text and a later tool call
C26_Witness ==
    \E i \in Positions :
        LET ms == tasks[i].trajectory.messages
        IN /\ Len(ms) >= 6
           /\ ms[2].role = "assistant" /\ Len(ms[2].content) = 2
           /\ ms[2].content[1].type = "tool-call"
           /\ ms[3].role = "tool" /\ ms[3].content[1].toolCallId = "call-2"
           /\ ms[4].role = "tool" /\ ms[4].content[1].toolCallId = "call-1"
           /\ ms[5].role = "assistant" /\ ms[5].content[1].type = "text"
           /\ ms[6].content[1].type = "tool-call"

\* C27: a call of loadUserConfig made after the configuration file was
\* modified returns the configuration read from the file as it is at the
\* call, never an earlier cached value, whatever calls came before: every
\* call made while no file-change notification is still on its way has
\* returned what the file at configPath gave at that moment.
C27_LoadReturnsCurrentFile ==
    \A k \in 1..Len(loaded) :
        loaded[k].pending = 0 => loaded[k].config = readConfig(loaded[k].file)

\* C22: once the user has stopped the optimization, the loop starts no
\* further iteration: a run that is between two iterations when the stop
\* has been requested does not go on to evaluate a parent.
C22_NoIterationAfterStop ==
    [][(~isOptimizing /\ pc = "loop") => pc' # "reflect"]_vars

\* C30: the reader delivers the events the server sent, each exactly once
\* and in the order sent, however the bytes of the stream are cut into
\* chunks: what has been delivered is always the first events sent, every
\* event sent has been delivered once the bytes written have all been read,
\* and at the end of the stream nothing is left in the buffer.
C30_EveryEventDeliveredOnceInOrder ==
    /\ Len(iterations) <= Len(events)
    /\ \A k \in 1..Len(iterations) : iterations[k] = events[k]
    /\ body = <<>> => (iterations = events /\ buffer = <<>> /\ partial = <<>>)
    /\ readerDone => iterations = events

\* the first of two events, whose text is a line feed, has been delivered,
\* and the chunk just read ended inside the two-byte character of the
\* second: its first byte is held back and the event's beginning is buffered
C30_Witness ==
    /\ Len(events) = 2
    /\ events[1] = <<LF>>
    /\ events[2] = <<Wide>>
    /\ iterations = <<events[1]>>
    /\ partial = <<LeadByte>>
    /\ buffer # <<>>

====
